---- MODULE Spec2Model ----
(***************************************************************************)
(* One run of the pull-request review action (src/main.ts): main() and the *)
(* functions it calls.  An action of the model is the code that runs from  *)
(* the completion of one awaited external call to the issue of the next.   *)
(***************************************************************************)
EXTENDS Integers, Sequences, FiniteSets, TLC

VARIABLES
  pc,            \* where main is suspended: the call it awaits, or "done"
  exitStatus,    \* the process's exit status, -1 while it runs
  cause,         \* what main().catch caught, "none" when nothing
  eventData,     \* the webhook payload at GITHUB_EVENT_PATH
  excludeInput,  \* core.getInput("exclude")
  parsedDiff,    \* parseDiff(diff)
  filteredDiff,  \* parsedDiff after the exclusion filter
  cur,           \* <<file, chunk>> of the chunk whose inference call is awaited
  comments,      \* analyzeCode's accumulated comments
  prompts,       \* the prompts createPrompt has built
  aiReturned,    \* what getAIResponse returned, chunk by chunk
  analyzed,      \* analyzeCode has returned to main (line 178)
  trace,         \* the external calls sent and answered, in order
  reviews        \* the createReview requests issued

vars == <<pc, exitStatus, cause, eventData, excludeInput, parsedDiff, filteredDiff,
          cur, comments, prompts, aiReturned, analyzed, trace, reviews>>

----------------------------------------------------------------------------
(* Bounds of the explored inputs *)
MaxFiles == 2
MaxChunks == 2
MaxHunks == 3
MaxFindings == 2

----------------------------------------------------------------------------
(* Strings are sequences of one-character strings. *)
DevNull == <<"/", "d", "e", "v", "/", "n", "u", "l", "l">>
\* file.to === undefined (a diff entry without a +++ line)
Undefined == <<"undefined">>
Digits == {"0", "1", "2", "3", "4", "5", "6", "7", "8", "9"}

Paths == {<<"a">>, DevNull, Undefined}

\* parse-diff File: the target path and the number of chunks
File == [to : Paths, chunks : 0..MaxChunks]

RECURSIVE TotalChunks(_)
TotalChunks(d) == IF d = <<>> THEN 0 ELSE Head(d).chunks + TotalChunks(Tail(d))

Diffs == {d \in UNION {[1..n -> File] : n \in 0..MaxFiles} : TotalChunks(d) <= MaxHunks}

\* The webhook payloads: unreadable, or readable with an action
Actions == {"opened", "synchronize", "closed"}
EventPayloads == {[readable |-> FALSE, action |-> "none"]}
                   \cup {[readable |-> TRUE, action |-> a] : a \in Actions}

\* Values of the "exclude" input
ExcludeInputs == { <<>>,
                   <<"x">>,
                   <<" ", "*", " ", ",", "x">> }

----------------------------------------------------------------------------
(* String helpers of line 175: split(",") and trim() *)
RECURSIVE SplitAcc(_, _, _)
SplitAcc(s, sep, acc) ==
  IF s = <<>> THEN <<acc>>
  ELSE IF Head(s) = sep THEN <<acc>> \o SplitAcc(Tail(s), sep, <<>>)
  ELSE SplitAcc(Tail(s), sep, Append(acc, Head(s)))

split(s, sep) == SplitAcc(s, sep, <<>>)

RECURSIVE TrimLeft(_)
TrimLeft(s) == IF s /= <<>> /\ Head(s) = " " THEN TrimLeft(Tail(s)) ELSE s

RECURSIVE TrimRight(_)
TrimRight(s) ==
  IF s /= <<>> /\ s[Len(s)] = " " THEN TrimRight(SubSeq(s, 1, Len(s) - 1)) ELSE s

trim(s) == TrimRight(TrimLeft(s))

excludePatternsOf(input) == [i \in 1..Len(split(input, ",")) |-> trim(split(input, ",")[i])]

(* minimatch(path, pattern) for patterns made of literal characters and "*": *)
(* the empty pattern matches only the empty path; "*" matches a run of       *)
(* characters other than "/"; a path segment matched by a pattern segment    *)
(* that begins with "*" is not empty and does not begin with ".".            *)
RECURSIVE GlobMatch(_, _, _)
GlobMatch(path, pat, segmentStart) ==
  IF pat = <<>> THEN path = <<>>
  ELSE IF Head(pat) = "*"
       THEN /\ segmentStart => (path /= <<>> /\ Head(path) \notin {"/", "."})
            /\ \E k \in 0..Len(path) :
                 /\ \A j \in 1..k : path[j] /= "/"
                 /\ GlobMatch(SubSeq(path, k + 1, Len(path)), Tail(pat), FALSE)
       ELSE /\ path /= <<>>
            /\ Head(path) = Head(pat)
            /\ GlobMatch(Tail(path), Tail(pat), Head(pat) = "/")

minimatch(path, pat) == GlobMatch(path, pat, TRUE)

\* file.to ?? ""
toOrEmpty(file) == IF file.to = Undefined THEN <<>> ELSE file.to

\* keepFile with every in place of some
keepFileEvery(file, patterns) ==
  ~ \A i \in 1..Len(patterns) : minimatch(toOrEmpty(file), patterns[i])

\* line 176: the predicate handed to parsedDiff.filter
keepFile(file, patterns) ==
  ~ \E i \in 1..Len(patterns) : minimatch(toOrEmpty(file), patterns[i])

RECURSIVE filterDiff(_, _)
filterDiff(d, patterns) ==
  IF d = <<>> THEN <<>>
  ELSE IF keepFile(Head(d), patterns)
       THEN <<Head(d)>> \o filterDiff(Tail(d), patterns)
       ELSE filterDiff(Tail(d), patterns)

----------------------------------------------------------------------------
(* The inference endpoint's answers to one request (lines 98-122 read them) *)
\* finding k of the answer about chunk h = <<file, chunk>>
Finding(h, k) ==
  [isNull |-> FALSE,
   lineNumber |-> IF k % 3 = 1 THEN <<"5">> ELSE IF k % 3 = 2 THEN <<"x">> ELSE <<"1", "0">>,
   reviewComment |-> <<h[1], h[2], k>>]
NullItem == [isNull |-> TRUE, lineNumber |-> <<>>, reviewComment |-> <<>>]

FindingLists(h) == {<<>>, [i \in 1..MaxFindings |-> Finding(h, i)]}

GoodResponse(items) ==
  [fetch |-> "resolves", ok |-> TRUE, body |-> "json", content |-> "object",
   reviews |-> "array", items |-> items]

AIResponses(h) ==
  {GoodResponse(l) : l \in FindingLists(h)}
  \cup { [GoodResponse(<<>>) EXCEPT !.fetch = "rejects"],        \* network error
         [GoodResponse(<<>>) EXCEPT !.ok = FALSE],               \* non-2xx status
         [GoodResponse(<<>>) EXCEPT !.body = "notjson"],         \* body is not JSON
         [GoodResponse(<<>>) EXCEPT !.content = "absent"],       \* no choices[0].message.content
         [GoodResponse(<<>>) EXCEPT !.content = "notjson"],      \* content is not JSON
         [GoodResponse(<<>>) EXCEPT !.content = "null"],         \* content is the JSON text null
         [GoodResponse(<<>>) EXCEPT !.reviews = "absent"],       \* {} without "reviews"
         [GoodResponse(<<>>) EXCEPT !.reviews = "null"],         \* {"reviews": null}
         [GoodResponse(<<>>) EXCEPT !.reviews = "string"],       \* {"reviews": "none"}
         [GoodResponse(<<>>) EXCEPT !.reviews = "zero"],         \* {"reviews": 0}
         GoodResponse(<<Finding(h, 1), NullItem>>) }             \* {"reviews": [{..}, null]}

EmptyArray == [type |-> "array", items |-> <<>>]

\* lines 96-127: the value getAIResponse resolves to (it never rejects)
getAIResponse(r) ==
  IF r.fetch = "rejects" THEN EmptyArray                      \* fetch throws, caught
  ELSE IF ~r.ok THEN EmptyArray                               \* throw new Error, caught
  ELSE IF r.body = "notjson" THEN EmptyArray                  \* response.json() throws
  ELSE LET content == IF r.content = "absent" THEN "{}" ELSE r.content
       IN IF content = "notjson" THEN EmptyArray              \* JSON.parse throws
          ELSE IF content = "null" THEN EmptyArray            \* null.reviews throws
          ELSE IF content = "{}" \/ r.reviews \in {"absent", "null"}
               THEN EmptyArray                                \* parsed.reviews ?? []
               ELSE [type |-> r.reviews, items |-> r.items]

\* JavaScript truthiness of a value getAIResponse returns (line 59)
truthy(v) == v.type = "array" \/ v.type = "string"

\* Number(text): a JavaScript number, NaN apart
RECURSIVE DigitsValue(_)
DigitsValue(s) ==
  IF s = <<>> THEN 0
  ELSE 10 * DigitsValue(SubSeq(s, 1, Len(s) - 1))
       + (CHOOSE n \in 0..9 : ToString(n) = s[Len(s)])

Number(s) ==
  IF \A i \in 1..Len(s) : s[i] \in Digits
  THEN [isNaN |-> FALSE, value |-> DigitsValue(s)]
  ELSE [isNaN |-> TRUE, value |-> 0]

\* createComment that returns the comments last finding first
createCommentReversed(file, chunk, aiResponses) ==
  IF aiResponses.type /= "array" THEN [threw |-> TRUE, value |-> <<>>]
  ELSE IF \E i \in 1..Len(aiResponses.items) : aiResponses.items[i].isNull
       THEN [threw |-> TRUE, value |-> <<>>]
       ELSE [threw |-> FALSE,
             value |-> [i \in 1..Len(aiResponses.items) |->
                          LET resp == aiResponses.items[Len(aiResponses.items) + 1 - i]
                          IN [body |-> resp.reviewComment,
                              path |-> file.to,
                              line |-> Number(resp.lineNumber)]]]

\* lines 129-135: aiResponses.map(...) throws a TypeError when aiResponses is
\* not an array or when an element is null
createComment(file, chunk, aiResponses) ==
  IF aiResponses.type /= "array" THEN [threw |-> TRUE, value |-> <<>>]
  ELSE IF \E i \in 1..Len(aiResponses.items) : aiResponses.items[i].isNull
       THEN [threw |-> TRUE, value |-> <<>>]
       ELSE [threw |-> FALSE,
             value |-> [i \in 1..Len(aiResponses.items) |->
                          [body |-> aiResponses.items[i].reviewComment,
                           path |-> file.to,
                           line |-> Number(aiResponses.items[i].lineNumber)]]]

\* lines 71-94: the prompt names the file and carries the chunk
createPrompt(file, chunk) == [path |-> file.to, chunk |-> chunk]

----------------------------------------------------------------------------
(* External calls, as they are sent and as their answers arrive *)
Send(call, f, c) == [ev |-> "send", call |-> call, file |-> f, chunk |-> c]
Recv(call, f, c) == [ev |-> "recv", call |-> call, file |-> f, chunk |-> c]

NoHunk == <<0, 0>>

\* nextHunk without the test of line 55
RECURSIVE nextHunkNoSkip(_, _, _)
nextHunkNoSkip(d, f, c) ==
  IF f > Len(d) THEN NoHunk
  ELSE IF c + 1 <= d[f].chunks THEN <<f, c + 1>>
  ELSE nextHunkNoSkip(d, f + 1, 0)

\* lines 54-56: the next chunk the two loops reach after chunk c of file f
RECURSIVE nextHunk(_, _, _)
nextHunk(d, f, c) ==
  IF f > Len(d) THEN NoHunk
  ELSE IF d[f].to = DevNull THEN nextHunk(d, f + 1, 0)
  ELSE IF c + 1 <= d[f].chunks THEN <<f, c + 1>>
  ELSE nextHunk(d, f + 1, 0)

\* main().catch that logs and lets the process end normally
FatalExitsZero(c) ==
  /\ pc' = "done"
  /\ exitStatus' = 0
  /\ cause' = c

\* lines 184-187: main().catch
Fatal(c) ==
  /\ pc' = "done"
  /\ exitStatus' = 1
  /\ cause' = c

\* main returns normally
Finish ==
  /\ pc' = "done"
  /\ exitStatus' = 0
  /\ UNCHANGED cause

\* Resume whose main submits the review whatever the number of comments
ResumeSubmitsAlways(d, f, c, cmts, tr) ==
  LET n == nextHunk(d, f, c) IN
  /\ comments' = cmts
  /\ IF n /= NoHunk
     THEN /\ pc' = "ai_wait"
          /\ cur' = n
          /\ prompts' = Append(prompts, createPrompt(d[n[1]], n[2]))
          /\ trace' = Append(tr, Send("inference", n[1], n[2]))
          /\ UNCHANGED <<exitStatus, cause, reviews, analyzed>>
     ELSE /\ cur' = NoHunk
          /\ analyzed' = TRUE
          /\ UNCHANGED prompts
          /\ pc' = "review_wait"
          /\ reviews' = Append(reviews, [comments |-> cmts, event |-> "COMMENT"])
          /\ trace' = Append(tr, Send("createReview", 0, 0))
          /\ UNCHANGED <<exitStatus, cause>>

\* Resume whose analyzeCode sends the request of the following chunk without
\* awaiting the answer to the one it has just sent
ResumeWithoutAwait(d, f, c, cmts, tr) ==
  LET n == nextHunk(d, f, c)
      n2 == IF n = NoHunk THEN NoHunk ELSE nextHunk(d, n[1], n[2])
  IN
  /\ comments' = cmts
  /\ IF n /= NoHunk
     THEN /\ pc' = "ai_wait"
          /\ cur' = n
          /\ prompts' = Append(prompts, createPrompt(d[n[1]], n[2]))
          /\ trace' = Append(tr, Send("inference", n[1], n[2]))
                        \o (IF n2 = NoHunk THEN <<>> ELSE <<Send("inference", n2[1], n2[2])>>)
          /\ UNCHANGED <<exitStatus, cause, reviews, analyzed>>
     ELSE /\ cur' = NoHunk
          /\ analyzed' = TRUE
          /\ UNCHANGED prompts
          /\ IF Len(cmts) > 0
             THEN /\ pc' = "review_wait"
                  /\ reviews' = Append(reviews, [comments |-> cmts, event |-> "COMMENT"])
                  /\ trace' = Append(tr, Send("createReview", 0, 0))
                  /\ UNCHANGED <<exitStatus, cause>>
             ELSE /\ Finish
                  /\ trace' = tr
                  /\ UNCHANGED reviews

\* lines 54-58 and 66-69, 178-181: analyzeCode runs on from chunk c of file f
\* with the comments cmts until its next await, or returns to main
Resume(d, f, c, cmts, tr) ==
  LET n == nextHunk(d, f, c) IN
  /\ comments' = cmts
  /\ IF n /= NoHunk
     THEN /\ pc' = "ai_wait"
          /\ cur' = n
          /\ prompts' = Append(prompts, createPrompt(d[n[1]], n[2]))
          /\ trace' = Append(tr, Send("inference", n[1], n[2]))
          /\ UNCHANGED <<exitStatus, cause, reviews, analyzed>>
     ELSE /\ cur' = NoHunk
          /\ analyzed' = TRUE
          /\ UNCHANGED prompts
          /\ IF Len(cmts) > 0
             THEN /\ pc' = "review_wait"
                  /\ reviews' = Append(reviews, [comments |-> cmts, event |-> "COMMENT"])
                  /\ trace' = Append(tr, Send("createReview", 0, 0))
                  /\ UNCHANGED <<exitStatus, cause>>
             ELSE /\ Finish
                  /\ trace' = tr
                  /\ UNCHANGED reviews

----------------------------------------------------------------------------
Init ==
  /\ pc = "start"
  /\ exitStatus = -1
  /\ cause = "none"
  /\ eventData \in EventPayloads
  /\ excludeInput \in ExcludeInputs
  /\ parsedDiff = <<>>
  /\ filteredDiff = <<>>
  /\ cur = NoHunk
  /\ comments = <<>>
  /\ prompts = <<>>
  /\ aiReturned = <<>>
  /\ analyzed = FALSE
  /\ trace = <<>>
  /\ reviews = <<>>

\* lines 22-30: getPRDetails reads the payload and asks for the pull request
Start ==
  /\ pc = "start"
  /\ IF eventData.readable
     THEN /\ pc' = "meta_wait"
          /\ trace' = Append(trace, Send("pulls.get", 0, 0))
          /\ UNCHANGED <<exitStatus, cause>>
     ELSE /\ Fatal("payload")
          /\ UNCHANGED trace
  /\ UNCHANGED <<eventData, excludeInput, parsedDiff, filteredDiff, cur, comments,
                 prompts, aiReturned, analyzed, reviews>>

\* MetaResponse whose main fetches the comparison for every action but "opened"
MetaResponseNoSkip ==
  /\ pc = "meta_wait"
  /\ \E ok \in BOOLEAN :
       LET tr == Append(trace, Recv("pulls.get", 0, 0)) IN
       IF ~ok
       THEN Fatal("metadata") /\ trace' = tr
       ELSE IF eventData.action = "opened"
            THEN /\ pc' = "diff_wait"
                 /\ trace' = Append(tr, Send("pulls.get.diff", 0, 0))
                 /\ UNCHANGED <<exitStatus, cause>>
            ELSE /\ pc' = "diff_wait"
                 /\ trace' = Append(tr, Send("compareCommits", 0, 0))
                 /\ UNCHANGED <<exitStatus, cause>>
  /\ UNCHANGED <<eventData, excludeInput, parsedDiff, filteredDiff, cur, comments,
                 prompts, aiReturned, analyzed, reviews>>

\* lines 31-37, 148-167: the pull request arrives (or the call fails); main
\* branches on the action
MetaResponse ==
  /\ pc = "meta_wait"
  /\ \E ok \in BOOLEAN :
       LET tr == Append(trace, Recv("pulls.get", 0, 0)) IN
       IF ~ok
       THEN Fatal("metadata") /\ trace' = tr
       ELSE IF eventData.action = "opened"
            THEN /\ pc' = "diff_wait"
                 /\ trace' = Append(tr, Send("pulls.get.diff", 0, 0))
                 /\ UNCHANGED <<exitStatus, cause>>
            ELSE IF eventData.action = "synchronize"
                 THEN /\ pc' = "diff_wait"
                      /\ trace' = Append(tr, Send("compareCommits", 0, 0))
                      /\ UNCHANGED <<exitStatus, cause>>
                 ELSE Finish /\ trace' = tr
  /\ UNCHANGED <<eventData, excludeInput, parsedDiff, filteredDiff, cur, comments,
                 prompts, aiReturned, analyzed, reviews>>

\* the diff call main made: line 153 or lines 155-161
DiffCall == IF eventData.action = "opened" THEN "pulls.get.diff" ELSE "compareCommits"

\* line 153 or lines 155-161: the diff call rejects
DiffFails ==
  /\ pc = "diff_wait"
  /\ Fatal("diff")
  /\ trace' = Append(trace, Recv(DiffCall, 0, 0))
  /\ UNCHANGED <<eventData, excludeInput, parsedDiff, filteredDiff, cur, comments,
                 prompts, aiReturned, analyzed, reviews>>

\* lines 169-172: the diff is null or the empty string
DiffEmpty ==
  /\ pc = "diff_wait"
  /\ Finish
  /\ trace' = Append(trace, Recv(DiffCall, 0, 0))
  /\ UNCHANGED <<eventData, excludeInput, parsedDiff, filteredDiff, cur, comments,
                 prompts, aiReturned, analyzed, reviews>>

\* line 174: parseDiff throws
DiffParseThrows ==
  /\ pc = "diff_wait"
  /\ Fatal("parse")
  /\ trace' = Append(trace, Recv(DiffCall, 0, 0))
  /\ UNCHANGED <<eventData, excludeInput, parsedDiff, filteredDiff, cur, comments,
                 prompts, aiReturned, analyzed, reviews>>

\* lines 174-178: the diff is parsed and filtered, analyzeCode starts
DiffResponse ==
  /\ pc = "diff_wait"
  /\ \E d \in Diffs :
       LET excludePatterns == excludePatternsOf(excludeInput)
           filtered == filterDiff(d, excludePatterns)
       IN /\ parsedDiff' = d
          /\ filteredDiff' = filtered
          /\ Resume(filtered, 1, 0, <<>>, Append(trace, Recv(DiffCall, 0, 0)))
  /\ UNCHANGED <<eventData, excludeInput, aiReturned>>

\* the failures of the inference call that getAIResponse is written to absorb:
\* network error, non-2xx status, body or content that is not JSON, missing key
InferenceFailed(r) ==
  \/ r.fetch = "rejects"
  \/ ~r.ok
  \/ r.body = "notjson"
  \/ r.content \in {"absent", "notjson"}
  \/ r.reviews = "absent"

\* lines 58-64: the answer for the chunk in flight arrives
AIResponse ==
  /\ pc = "ai_wait"
  /\ \E r \in AIResponses(cur) :
       LET file == filteredDiff[cur[1]]
           aiResponse == getAIResponse(r)
           tr == Append(trace, Recv("inference", cur[1], cur[2]))
           newComments == createComment(file, cur[2], aiResponse)
       IN /\ aiReturned' = Append(aiReturned,
                                  [file |-> cur[1], chunk |-> cur[2],
                                   failed |-> InferenceFailed(r), value |-> aiResponse])
          /\ IF truthy(aiResponse)
             THEN IF newComments.threw
                  THEN /\ Fatal("analysis")
                       /\ trace' = tr
                       /\ UNCHANGED <<cur, comments, prompts, reviews, analyzed>>
                  ELSE Resume(filteredDiff, cur[1], cur[2], comments \o newComments.value, tr)
             ELSE Resume(filteredDiff, cur[1], cur[2], comments, tr)
  /\ UNCHANGED <<eventData, excludeInput, parsedDiff, filteredDiff>>

\* lines 137-145, 180: the answer to createReview arrives
ReviewResponse ==
  /\ pc = "review_wait"
  /\ \E ok \in BOOLEAN :
       IF ok THEN Finish ELSE Fatal("review")
  /\ trace' = Append(trace, Recv("createReview", 0, 0))
  /\ UNCHANGED <<eventData, excludeInput, parsedDiff, filteredDiff, cur, comments,
                 prompts, aiReturned, analyzed, reviews>>

Next ==
  \/ Start
  \/ MetaResponse
  \/ DiffFails
  \/ DiffEmpty
  \/ DiffParseThrows
  \/ DiffResponse
  \/ AIResponse
  \/ ReviewResponse

Spec == Init /\ [][Next]_vars

----------------------------------------------------------------------------
(* Vocabulary of the properties *)
Sends(call) == {i \in DOMAIN trace : trace[i].ev = "send" /\ trace[i].call = call}
Recvs(call) == {i \in DOMAIN trace : trace[i].ev = "recv" /\ trace[i].call = call}
DiffSends == Sends("pulls.get.diff") \cup Sends("compareCommits")

\* the chunks analyzeCode is to review: those of the surviving files that are
\* not deleted files
Hunks == {h \in (DOMAIN filteredDiff) \X (1..MaxChunks + 1) :
            /\ filteredDiff[h[1]].to /= DevNull
            /\ h[2] <= filteredDiff[h[1]].chunks}

InferenceSends(h) ==
  {i \in Sends("inference") : trace[i].file = h[1] /\ trace[i].chunk = h[2]}
InferenceRecvs(h) ==
  {i \in Recvs("inference") : trace[i].file = h[1] /\ trace[i].chunk = h[2]}

Supported == eventData.action \in {"opened", "synchronize"}

\* the findings getAIResponse returned for chunk h (none while it has returned nothing)
ReturnedFor(h) ==
  LET at == {i \in DOMAIN aiReturned : aiReturned[i].file = h[1] /\ aiReturned[i].chunk = h[2]}
  IN IF at = {} THEN <<>>
     ELSE LET v == aiReturned[CHOOSE i \in at : TRUE].value
          IN IF v.type = "array" THEN v.items ELSE <<>>

\* body and path of the comments that findings of file f are to become
Expected(f, findings) ==
  [k \in 1..Len(findings) |->
     [body |-> findings[k].reviewComment, path |-> filteredDiff[f].to]]

RECURSIVE ExpectedFrom(_, _)
ExpectedFrom(f, c) ==
  IF f > Len(filteredDiff) THEN <<>>
  ELSE IF c > filteredDiff[f].chunks THEN ExpectedFrom(f + 1, 1)
  ELSE Expected(f, ReturnedFor(<<f, c>>)) \o ExpectedFrom(f, c + 1)

BodyAndPath(cs) == [k \in 1..Len(cs) |-> [body |-> cs[k].body, path |-> cs[k].path]]

----------------------------------------------------------------------------
\* C1: a review is submitted exactly when analysis has ended with a non-empty
\* comment list; there is then one createReview call, carrying every
\* accumulated comment with the event "COMMENT"; with no comment there is none.
C1_SubmitIffComments ==
  /\ (reviews /= <<>>) <=> (analyzed /\ Len(comments) > 0)
  /\ Len(reviews) <= 1
  /\ Len(reviews) = Cardinality(Sends("createReview"))
  /\ \A i \in DOMAIN reviews :
       /\ reviews[i].comments = comments
       /\ reviews[i].event = "COMMENT"

C1_Witness ==
  /\ pc = "done"
  /\ exitStatus = 0
  /\ Len(reviews) = 1
  /\ Len(reviews[1].comments) > MaxFindings

\* C2: with an action other than "opened" and "synchronize", once the pull
\* request has been retrieved the run has ended with status 0, and it makes no
\* diff call, no inference request and no review submission.
C2_UnsupportedActionSkips ==
  (eventData.readable /\ ~Supported) =>
     /\ DiffSends = {}
     /\ Sends("inference") = {}
     /\ Sends("createReview") = {}
     /\ reviews = <<>>
     /\ (Recvs("pulls.get") /= {} /\ cause /= "metadata") => (pc = "done" /\ exitStatus = 0)

C2_Witness ==
  /\ eventData.action = "closed"
  /\ Recvs("pulls.get") /= {}
  /\ pc = "done"
  /\ exitStatus = 0

\* C3: when the inference call of a chunk fails, getAIResponse returns the
\* empty sequence, the chunk adds no comment, every remaining chunk is still
\* processed and the comments of the run are submitted.
C3_FailureDoesNotStopTheRun ==
  /\ \A i \in DOMAIN aiReturned : aiReturned[i].failed => aiReturned[i].value = EmptyArray
  /\ (pc = "done" /\ \E i \in DOMAIN aiReturned : aiReturned[i].failed) =>
        /\ \A h \in Hunks : InferenceRecvs(h) /= {}
        /\ Len(comments) > 0 => (Len(reviews) = 1 /\ reviews[1].comments = comments)

\* C4 as claimed: a run that ends fatally has issued no review submission.
C4_FatalNeverSubmitted ==
  (pc = "done" /\ exitStatus /= 0) => (reviews = <<>> /\ Sends("createReview") = {})

\* C4 as amended: a run that ends fatally exits with a non-zero status; it has
\* issued no review submission unless the fatal error is the failure of the
\* submission call itself, and that call carried the comments of the completed
\* analysis.
C4_FatalSubmitsNothingPartial ==
  /\ cause /= "none" => (pc = "done" /\ exitStatus /= 0)
  /\ (pc = "done" /\ exitStatus /= 0) =>
       /\ cause /= "none"
       /\ cause /= "review" => (reviews = <<>> /\ Sends("createReview") = {})
       /\ cause = "review" =>
            /\ analyzed
            /\ \A h \in Hunks : InferenceRecvs(h) /= {}
            /\ Len(reviews) = 1
            /\ reviews[1].comments = comments

C4_Witness ==
  /\ pc = "done"
  /\ exitStatus /= 0
  /\ cause = "analysis"
  /\ Len(comments) > 0
  /\ reviews = <<>>

\* C5: a schema violation in the inference response yields empty findings and
\* never aborts the run.
C5_SchemaViolationIsRecoverable ==
  /\ cause /= "analysis"
  /\ \A i \in DOMAIN aiReturned :
       /\ aiReturned[i].value.type = "array"
       /\ \A k \in DOMAIN aiReturned[i].value.items : ~aiReturned[i].value.items[k].isNull

\* C6: the comments analyzeCode returns, and main submits, are the findings
\* returned chunk by chunk, in file order and then chunk order, each with the
\* path of its file: none is dropped, duplicated or reordered.
C6_CommentsAreTheFindingsInOrder ==
  analyzed =>
    /\ BodyAndPath(comments) = ExpectedFrom(1, 1)
    /\ \A i \in DOMAIN reviews : BodyAndPath(reviews[i].comments) = ExpectedFrom(1, 1)

C6_Witness ==
  /\ analyzed
  /\ Len(reviews) = 1
  /\ Len(filteredDiff) = 2
  /\ Len(ReturnedFor(<<1, 1>>)) > 1
  /\ Len(ReturnedFor(<<1, 2>>)) > 1
  /\ Len(ReturnedFor(<<2, 1>>)) > 1
  /\ filteredDiff[1].to /= filteredDiff[2].to

\* C7: a file survives the filter exactly when its target path (the empty
\* string when it has none) matches none of the trimmed, comma-separated
\* patterns, and the surviving files keep their order.
ClaimedPatterns ==
  LET parts == split(excludeInput, ",") IN {trim(parts[i]) : i \in DOMAIN parts}

ExcludedBy(file, patterns) ==
  \E p \in patterns : minimatch(IF file.to = Undefined THEN <<>> ELSE file.to, p)

Excluded(file) == ExcludedBy(file, ClaimedPatterns)

C7_FilterKeepsExactlyTheUnmatched ==
  LET patterns == ClaimedPatterns
      kept == {j \in DOMAIN parsedDiff : ~ExcludedBy(parsedDiff[j], patterns)}
  IN /\ Len(filteredDiff) = Cardinality(kept)
     /\ \A j \in kept :
          filteredDiff[Cardinality({k \in kept : k <= j})] = parsedDiff[j]

C7_Witness ==
  /\ Len(parsedDiff) = 2
  /\ Len(filteredDiff) = 1
  /\ Excluded(parsedDiff[1])
  /\ parsedDiff[1].to = Undefined
  /\ filteredDiff[1] = parsedDiff[2]

\* C8: no prompt is built and no inference request is sent for a chunk of a
\* file whose target path is "/dev/null"; a diff of deleted files only gives
\* the empty comment list and no review.
C8_DeletedFilesAreNotAnalyzed ==
  /\ \A i \in Sends("inference") : filteredDiff[trace[i].file].to /= DevNull
  /\ \A i \in DOMAIN prompts : prompts[i].path /= DevNull
  /\ (\A f \in DOMAIN parsedDiff : parsedDiff[f].to = DevNull) =>
        /\ Sends("inference") = {}
        /\ comments = <<>>
        /\ reviews = <<>>
        /\ analyzed => (pc = "done" /\ exitStatus = 0)

C8_Witness ==
  /\ analyzed
  /\ pc = "done"
  /\ Len(filteredDiff) = 2
  /\ \A f \in DOMAIN filteredDiff : filteredDiff[f].to = DevNull /\ filteredDiff[f].chunks > 0

\* C9: in a run that reaches analysis exactly one inference request is sent
\* for each chunk of each surviving file that is not deleted, and the diff
\* call and the review submission are made at most once.
C9_EveryCallExactlyOnce ==
  /\ Cardinality(DiffSends) <= 1
  /\ Cardinality(Sends("createReview")) <= 1
  /\ \A h \in Hunks : Cardinality(InferenceSends(h)) <= 1
  /\ (pc = "done" /\ (analyzed \/ aiReturned /= <<>>)) =>
        \A h \in Hunks : Cardinality(InferenceSends(h)) = 1

\* C10: the external calls never overlap and come in order: pull request,
\* diff, the inference requests chunk after chunk, review; a call is sent only
\* when every earlier call has been answered, and the review only when the
\* request of every chunk has been answered.
CallRank(e) ==
  IF e.call = "pulls.get" THEN 1
  ELSE IF e.call \in {"pulls.get.diff", "compareCommits"} THEN 2
  ELSE IF e.call = "inference" THEN 3
  ELSE 4

C10_CallsAreSequential ==
  LET inference == Sends("inference")
      answered == {<<trace[j].file, trace[j].chunk>> : j \in Recvs("inference")}
  IN
  /\ \A i \in DOMAIN trace :
       IF trace[i].ev = "send"
       THEN i > 1 => trace[i - 1].ev = "recv"
       ELSE i > 1 /\ trace[i - 1] = [trace[i] EXCEPT !.ev = "send"]
  /\ \A i \in DOMAIN trace : i > 1 => CallRank(trace[i - 1]) <= CallRank(trace[i])
  /\ \A i, j \in inference :
       i < j => \/ trace[i].file < trace[j].file
                \/ trace[i].file = trace[j].file /\ trace[i].chunk < trace[j].chunk
  /\ Sends("createReview") /= {} => Hunks \subseteq answered

C10_Witness ==
  /\ pc = "done"
  /\ exitStatus = 0
  /\ Len(reviews) = 1
  /\ Cardinality(Sends("inference")) = MaxHunks
  /\ Recvs("createReview") /= {}

====
